---- MODULE Spec2Model ----
(***************************************************************************)
(* Model of generate_calendar.py: the merge of two ICS feeds of Napoli     *)
(* fixtures into one calendar.                                             *)
(*                                                                         *)
(* Strings are sequences of one-character strings, so that lower(),        *)
(* startswith(), "in" and "+" are computed character by character.         *)
(* An Optional value is a set with at most one element: None is {} and a   *)
(* present value x is {x}.                                                 *)
(* An event is a record [name, begin] of two Optionals; begin holds a      *)
(* timezone-aware datetime [year, month, day, hour, minute, second,        *)
(* utcoffset], utcoffset in minutes east of UTC.                           *)
(* An Event object is identified by the feed it was parsed from and its    *)
(* position in the iteration order of that feed's cal.events.              *)
(***************************************************************************)
EXTENDS Integers, Sequences, FiniteSets, TLC

\* ------------------------------------------------------------------------
\* Bounds of the model
\* ------------------------------------------------------------------------
\* Number of events the two feeds serve together
MaxEvents == 3

\* ------------------------------------------------------------------------
\* Program constants
\* ------------------------------------------------------------------------
KEYWORD == <<"N", "a", "p", "o", "l", "i">>
MIN_YEAR == 2025
PREFIX == <<"⚽", " ">>

None == {}
Some(x) == {x}
Value(opt) == CHOOSE x \in opt : TRUE

\* ------------------------------------------------------------------------
\* str operations
\* ------------------------------------------------------------------------
UpperCase ==
    <<"A", "B", "C", "D", "E", "F", "G", "H", "I", "J", "K", "L", "M",
      "N", "O", "P", "Q", "R", "S", "T", "U", "V", "W", "X", "Y", "Z">>
LowerCase ==
    <<"a", "b", "c", "d", "e", "f", "g", "h", "i", "j", "k", "l", "m",
      "n", "o", "p", "q", "r", "s", "t", "u", "v", "w", "x", "y", "z">>

lower_char(c) ==
    IF \E i \in 1..26 : UpperCase[i] = c
    THEN LowerCase[CHOOSE i \in 1..26 : UpperCase[i] = c]
    ELSE c

\* s.lower()
lower(s) == [i \in 1..Len(s) |-> lower_char(s[i])]

\* s.startswith(p)
startswith(s, p) == Len(s) >= Len(p) /\ SubSeq(s, 1, Len(p)) = p

\* sub in s
contains(sub, s) ==
    \E needle \in {sub}, hay \in {s} :
        \E i \in 0..(Len(hay) - Len(needle)) :
            SubSeq(hay, i + 1, i + Len(needle)) = needle

\* ------------------------------------------------------------------------
\* datetime operations
\* ------------------------------------------------------------------------
is_leap(y) == (y % 4 = 0 /\ y % 100 # 0) \/ y % 400 = 0

days_in_month(y, m) ==
    IF m = 2 THEN (IF is_leap(y) THEN 29 ELSE 28)
    ELSE IF m \in {4, 6, 9, 11} THEN 30 ELSE 31

prev_day(dt) ==
    IF dt.day > 1 THEN [dt EXCEPT !.day = dt.day - 1]
    ELSE IF dt.month > 1
         THEN [dt EXCEPT !.month = dt.month - 1,
                         !.day = days_in_month(dt.year, dt.month - 1)]
         ELSE [dt EXCEPT !.year = dt.year - 1, !.month = 12, !.day = 31]

next_day(dt) ==
    IF dt.day < days_in_month(dt.year, dt.month)
    THEN [dt EXCEPT !.day = dt.day + 1]
    ELSE IF dt.month < 12
         THEN [dt EXCEPT !.month = dt.month + 1, !.day = 1]
         ELSE [dt EXCEPT !.year = dt.year + 1, !.month = 1, !.day = 1]

\* dt.astimezone(timezone.utc): same instant, expressed with offset 0
astimezone_utc_wrong_sign(dt) ==
    LET m == dt.hour * 60 + dt.minute + dt.utcoffset
        d == IF m < 0 THEN prev_day(dt)
             ELSE IF m >= 1440 THEN next_day(dt) ELSE dt
        r == m % 1440
    IN  [d EXCEPT !.hour = r \div 60, !.minute = r % 60, !.utcoffset = 0]

astimezone_utc(dt) ==
    LET m == dt.hour * 60 + dt.minute - dt.utcoffset
        d == IF m < 0 THEN prev_day(dt)
             ELSE IF m >= 1440 THEN next_day(dt) ELSE dt
        r == m % 1440
    IN  [d EXCEPT !.hour = r \div 60, !.minute = r % 60, !.utcoffset = 0]

Digits == <<"0", "1", "2", "3", "4", "5", "6", "7", "8", "9">>
pad2(n) == <<Digits[((n \div 10) % 10) + 1], Digits[(n % 10) + 1]>>
pad4(n) == pad2(n \div 100) \o pad2(n % 100)

\* dt.strftime("%Y-%m-%d %H:%M"): the seconds and the offset are not printed
strftime_minute(dt) ==
    pad4(dt.year) \o <<"-">> \o pad2(dt.month) \o <<"-">> \o pad2(dt.day)
        \o <<" ">> \o pad2(dt.hour) \o <<":">> \o pad2(dt.minute)

\* ------------------------------------------------------------------------
\* Helpers of generate_calendar.py
\* ------------------------------------------------------------------------
get_event_datetime(event) == event.begin

get_event_year(event) == {dt.year : dt \in get_event_datetime(event)}

event_time_key_no_utc(event) ==
    {strftime_minute(dt) : dt \in get_event_datetime(event)}

event_time_key_time_only(event) ==
    {SubSeq(strftime_minute(astimezone_utc(dt)), 12, 16) :
        dt \in get_event_datetime(event)}

event_time_key_hour(event) ==
    {SubSeq(strftime_minute(astimezone_utc(dt)), 1, 13) :
        dt \in get_event_datetime(event)}

event_time_key_seconds(event) ==
    {strftime_minute(astimezone_utc(dt)) \o <<":">> \o pad2(dt.second) :
        dt \in get_event_datetime(event)}

event_time_key(event) ==
    {strftime_minute(astimezone_utc(dt)) : dt \in get_event_datetime(event)}

is_cup_event_case_sensitive(name) ==
    \/ contains(<<"[", "c", "o", "p", "]">>, name)
    \/ contains(<<"c", "o", "p", "p", "a">>, name)
    \/ contains(<<"s", "u", "p", "e", "r", "c", "o", "p", "p", "a">>, name)
    \/ contains(<<"s", "u", "p", "e", "r", " ", "c", "u", "p">>, name)

is_cup_event(name) ==
    LET s == lower(name)
    IN  \/ contains(<<"[", "c", "o", "p", "]">>, s)
        \/ contains(<<"c", "o", "p", "p", "a">>, s)
        \/ contains(<<"s", "u", "p", "e", "r", "c", "o", "p", "p", "a">>, s)
        \/ contains(<<"s", "u", "p", "e", "r", " ", "c", "u", "p">>, s)

\* name = event.name or ""
name_of(event) == IF event.name = None THEN <<>> ELSE Value(event.name)

\* 1) KEYWORD.lower() not in name.lower()  -> continue
keyword_missing_only_empty(name) == name = <<>>

keyword_missing(name) == ~contains(lower(KEYWORD), lower(name))

\* 2) year is None or year < MIN_YEAR  -> continue
year_excluded_none_passes(event) ==
    LET year == get_event_year(event)
    IN  year # None /\ Value(year) < MIN_YEAR

year_excluded_off_by_one(event) ==
    LET year == get_event_year(event)
    IN  year = None \/ Value(year) < MIN_YEAR - 1

year_excluded(event) ==
    LET year == get_event_year(event)
    IN  year = None \/ Value(year) < MIN_YEAR

\* 3) cup_only and not is_cup_event(name)  -> continue
cup_excluded_ignores_flag(name, cup_only) == ~is_cup_event(name)

cup_excluded(name, cup_only) == cup_only /\ ~is_cup_event(name)

\* 4) skip_if_seen and key is not None and key in seen_times  -> continue
already_seen_ignores_flag(key, seen, skip_if_seen) ==
    key # None /\ Value(key) \in seen

already_seen(key, seen, skip_if_seen) ==
    skip_if_seen /\ key # None /\ Value(key) \in seen

\* 5) the summary the accepted event carries
labelled_always(name) == PREFIX \o name

labelled_never(name) == name

labelled(name) == IF startswith(name, PREFIX) THEN name ELSE PREFIX \o name

\* ------------------------------------------------------------------------
\* Feed contents the two providers may serve
\* ------------------------------------------------------------------------
DT(y, mo, d, h, mi, s, off) ==
    [year |-> y, month |-> mo, day |-> d, hour |-> h, minute |-> mi,
     second |-> s, utcoffset |-> off]

T_1800Z == DT(2025, 9, 10, 18, 0, 0, 0)          \* 2025-09-10T18:00:00Z
T_2000CEST == DT(2025, 9, 10, 20, 0, 0, 120)     \* the same instant, +02:00
T_1800Z_30s == DT(2025, 9, 10, 18, 0, 30, 0)     \* same minute, 30 s later
T_1830Z == DT(2025, 9, 10, 18, 30, 0, 0)         \* same day, 30 min later
T_NextDay == DT(2025, 9, 11, 18, 0, 0, 0)        \* next day, same time of day
T_2024 == DT(2024, 5, 1, 12, 0, 0, 0)            \* before MIN_YEAR
T_NYE_West == DT(2024, 12, 31, 23, 30, 0, -60)   \* 2025-01-01T00:30Z
T_NY_East == DT(2025, 1, 1, 0, 30, 0, 60)        \* 2024-12-31T23:30Z

S_NapoliInter ==
    <<"N", "a", "p", "o", "l", "i", " ", "-", " ", "I", "n", "t", "e", "r">>
S_InterNapoli ==
    <<"I", "n", "t", "e", "r", " ", "v", " ", "N", "a", "p", "o", "l", "i">>
S_PrefixedCup ==
    <<"⚽", " ", "N", "A", "P", "O", "L", "I", " ", "-", " ",
      "I", "n", "t", "e", "r", " ", "[", "C", "O", "P", "]">>
S_InterNapoliCoppa ==
    <<"I", "n", "t", "e", "r", " ", "v", " ", "N", "a", "p", "o", "l", "i",
      " ", "C", "o", "p", "p", "a">>
S_InterMilanCup ==
    <<"I", "n", "t", "e", "r", " ", "-", " ", "M", "i", "l", "a", "n",
      " ", "[", "C", "O", "P", "]">>
S_NapoliMilanSuperCup ==
    <<"N", "a", "p", "o", "l", "i", " ", "v", "s", " ", "M", "i", "l", "a", "n",
      " ", "S", "u", "p", "e", "r", " ", "C", "u", "p">>
S_NapoliSupercoppa ==
    <<"N", "a", "p", "o", "l", "i", " ", "S", "u", "p", "e", "r", "c", "o", "p",
      "p", "a">>
S_NapoliModenaCup ==
    <<"N", "a", "p", "o", "l", "i", " ", "-", " ", "M", "o", "d", "e", "n", "a",
      " ", "F", "C", " ", "[", "C", "O", "P", "]">>

Ev(name, begin) == [name |-> name, begin |-> begin]

PrimaryPool ==
    { Ev(Some(S_NapoliInter), Some(T_1800Z)),
      Ev(Some(S_PrefixedCup), Some(T_1800Z)),
      Ev(Some(S_NapoliModenaCup), Some(T_NY_East)),
      Ev(Some(S_NapoliInter), Some(T_2024)),
      Ev(Some(S_NapoliInter), None),
      Ev(Some(S_NapoliSupercoppa), Some(T_1830Z)),
      Ev(Some(S_InterMilanCup), Some(T_1800Z)),
      Ev(None, Some(T_1800Z)) }

SecondaryPool ==
    { Ev(Some(S_InterNapoli), Some(T_1800Z)),
      Ev(Some(S_InterNapoliCoppa), Some(T_2000CEST)),
      Ev(Some(S_InterNapoliCoppa), Some(T_1800Z_30s)),
      Ev(Some(S_InterNapoliCoppa), Some(T_1830Z)),
      Ev(Some(S_NapoliMilanSuperCup), Some(T_1830Z)),
      Ev(Some(S_NapoliMilanSuperCup), Some(T_NextDay)),
      Ev(Some(S_NapoliMilanSuperCup), Some(T_NYE_West)),
      Ev(Some(S_NapoliInter), None),
      Ev(Some(S_InterMilanCup), Some(T_1830Z)),
      Ev(Some(<<>>), Some(T_1830Z)) }

SeqsUpTo(S, n) == UNION {[1..k -> S] : k \in 0..n}

\* What resp.text of each provider may hold; the secondary feed has the room
\* the primary feed leaves within MaxEvents
PrimaryFeeds == SeqsUpTo(PrimaryPool, MaxEvents)
SecondaryFeeds == [room \in 0..MaxEvents |-> SeqsUpTo(SecondaryPool, room)]

\* ------------------------------------------------------------------------
\* State
\* ------------------------------------------------------------------------
VARIABLES
    pc,            \* position in main()
    feed,          \* events as served by each provider (resp.text)
    cal,           \* primary_cal / secondary_cal: the parsed Event objects
    idx,           \* position of the for loop in cal.events
    added,         \* local counter of add_events_from_calendar
    fate,          \* per pass, the exit taken by each finished iteration
    seen_times,    \* set of dedup keys
    final_events,  \* final_calendar.events: a set of Event objects
    ics_text       \* the serialized calendar, in the order written

vars == <<pc, feed, cal, idx, added, fate, seen_times, final_events, ics_text>>

Feeds == {"primary", "secondary"}

Init ==
    /\ pc = "load_primary"
    /\ feed = [f \in Feeds |-> <<>>]
    /\ cal = [f \in Feeds |-> <<>>]
    /\ idx = 1
    /\ added = 0
    /\ fate = [f \in Feeds |-> <<>>]
    /\ seen_times = {}
    /\ final_events = {}
    /\ ics_text = <<>>

\* primary_cal = load_calendar(primary_url)
LoadPrimary ==
    /\ pc = "load_primary"
    /\ \E events \in PrimaryFeeds :
          /\ feed' = [feed EXCEPT !["primary"] = events]
          /\ cal' = [cal EXCEPT !["primary"] = events]
    /\ pc' = "primary"
    /\ idx' = 1
    /\ added' = 0
    /\ UNCHANGED <<fate, seen_times, final_events, ics_text>>

\* secondary_cal = load_calendar(secondary_url)
LoadSecondary ==
    /\ pc = "load_secondary"
    /\ \E events \in SecondaryFeeds[MaxEvents - Len(cal["primary"])] :
          /\ feed' = [feed EXCEPT !["secondary"] = events]
          /\ cal' = [cal EXCEPT !["secondary"] = events]
    /\ pc' = "secondary"
    /\ idx' = 1
    /\ added' = 0
    /\ UNCHANGED <<fate, seen_times, final_events, ics_text>>

\* The exit one iteration of the for loop takes for event
exit_of(event, seen, skip_if_seen, cup_only) ==
    LET name == name_of(event)
        key == event_time_key(event)
    IN  IF keyword_missing(name) THEN "keyword"
        ELSE IF year_excluded(event) THEN "year"
        ELSE IF cup_excluded(name, cup_only) THEN "cup"
        ELSE IF already_seen(key, seen, skip_if_seen) THEN "seen"
        ELSE "added"

\* final_calendar.events.add(event)
events_add_replaces(events, ref) == {ref}

events_add(events, ref) == events \cup {ref}

\* if key is not None: seen_times.add(key)
seen_add_nothing(seen, key) == seen

seen_add_replaces(seen, key) == key

seen_add(seen, key) == seen \cup key

\* event.name after the iteration: only step 5 assigns it, and every
\* continue comes before step 5
summary_after_labels_first(event, exit) == Some(labelled(name_of(event)))

summary_after(event, exit) ==
    IF exit = "added" THEN Some(labelled(name_of(event))) ELSE event.name

\* Position of the for loop after an iteration over n events: a continue and
\* the end of the body both go on with the next event
after_iteration_break(i, exit, n) == IF exit = "added" THEN i + 1 ELSE n + 1

after_iteration(i, exit, n) == i + 1

\* One iteration of the for loop of add_events_from_calendar over cal[f]
add_event(f, skip_if_seen, cup_only) ==
    /\ idx <= Len(cal[f])
    /\ \E event \in {cal[f][idx]} :
       \E key \in {event_time_key(event)} :
       \E exit \in {exit_of(event, seen_times, skip_if_seen, cup_only)} :
           /\ fate' = [fate EXCEPT ![f] = Append(@, exit)]
           /\ cal' = [cal EXCEPT ![f][idx].name = summary_after(event, exit)]
           /\ idx' = after_iteration(idx, exit, Len(cal[f]))
           /\ IF exit = "added"
              THEN /\ final_events' = events_add(final_events, <<f, idx>>)
                   /\ added' = added + 1
                   /\ seen_times' = seen_add(seen_times, key)
              ELSE UNCHANGED <<final_events, added, seen_times>>
    /\ UNCHANGED <<pc, feed, ics_text>>

\* The for loop is exhausted: the debug line is printed and the call returns
loop_done_early(f) == idx >= Len(cal[f])

loop_done(f) == idx > Len(cal[f])

PrimaryStep ==
    /\ pc = "primary"
    /\ add_event("primary", FALSE, FALSE)

PrimaryEnd ==
    /\ pc = "primary"
    /\ loop_done("primary")
    /\ pc' = "load_secondary"
    /\ UNCHANGED <<feed, cal, idx, added, fate, seen_times, final_events,
                   ics_text>>

SecondaryStep ==
    /\ pc = "secondary"
    /\ add_event("secondary", TRUE, TRUE)

SecondaryEnd ==
    /\ pc = "secondary"
    /\ loop_done("secondary")
    /\ pc' = "serialize"
    /\ UNCHANGED <<feed, cal, idx, added, fate, seen_times, final_events,
                   ics_text>>

\* The orders in which a set can be iterated
Orders(S) ==
    {o \in [1..Cardinality(S) -> S] :
        \A i, j \in 1..Cardinality(S) : o[i] = o[j] => i = j}

\* ics_text = final_calendar.serialize(): events is a set, written in its
\* iteration order
Serialize ==
    /\ pc = "serialize"
    /\ ics_text' \in Orders(final_events)
    /\ pc' = "done"
    /\ UNCHANGED <<feed, cal, idx, added, fate, seen_times, final_events>>

Next ==
    \/ LoadPrimary
    \/ PrimaryStep
    \/ PrimaryEnd
    \/ LoadSecondary
    \/ SecondaryStep
    \/ SecondaryEnd
    \/ Serialize

Spec == Init /\ [][Next]_vars

\* main() is one sequential thread: while a statement remains, it is executed
FairSpec == Spec /\ WF_vars(Next)

\* ------------------------------------------------------------------------
\* Vocabulary of the properties
\* ------------------------------------------------------------------------
Refs(f) == {<<f, i>> : i \in DOMAIN feed[f]}
Served(ref) == feed[ref[1]][ref[2]]
Current(ref) == cal[ref[1]][ref[2]]
Processed(ref) == ref[2] <= Len(fate[ref[1]])
Exit(ref) == fate[ref[1]][ref[2]]
InOutput(ref) == \E k \in DOMAIN ics_text : ics_text[k] = ref

\* Proleptic Gregorian day number of a date, and the UTC minute of an instant
RECURSIVE DaysBeforeMonth(_, _)
DaysBeforeMonth(y, m) ==
    IF m = 1 THEN 0 ELSE DaysBeforeMonth(y, m - 1) + days_in_month(y, m - 1)

DayNumber(y, m, d) ==
    365 * (y - 1) + ((y - 1) \div 4) - ((y - 1) \div 100) + ((y - 1) \div 400)
        + DaysBeforeMonth(y, m) + d

UtcMinute(dt) ==
    DayNumber(dt.year, dt.month, dt.day) * 1440 + dt.hour * 60 + dt.minute
        - dt.utcoffset

\* The events either provider may serve; the tests below are computed once
\* for each of them
Pool == PrimaryPool \cup SecondaryPool

\* Optional UTC minute and UTC calendar day of an event's start
MinuteOfPool == [e \in Pool |-> {UtcMinute(dt) : dt \in e.begin}]
MinuteOf(event) ==
    IF event \in Pool THEN MinuteOfPool[event]
    ELSE {UtcMinute(dt) : dt \in event.begin}
UtcDay(m) == (m - (m % 1440)) \div 1440
DateKey(event) == {UtcDay(m) : m \in MinuteOf(event)}

KeywordIn(name) == contains(lower(KEYWORD), lower(name))
HasKeywordPool == [e \in Pool |-> KeywordIn(name_of(e))]
HasKeyword(event) ==
    IF event \in Pool THEN HasKeywordPool[event] ELSE KeywordIn(name_of(event))
YearInRange(event) ==
    event.begin # None /\ \A dt \in event.begin : dt.year >= MIN_YEAR
CupIn(name) ==
    \E s \in {lower(name)} :
        \E tag \in {<<"[", "c", "o", "p", "]">>, <<"c", "o", "p", "p", "a">>,
                    <<"s", "u", "p", "e", "r", "c", "o", "p", "p", "a">>,
                    <<"s", "u", "p", "e", "r", " ", "c", "u", "p">>} :
            contains(tag, s)
IsCupPool == [e \in Pool |-> CupIn(name_of(e))]
IsCup(event) ==
    IF event \in Pool THEN IsCupPool[event] ELSE CupIn(name_of(event))
PassesFilter(ref) ==
    /\ HasKeyword(Served(ref))
    /\ YearInRange(Served(ref))
    /\ ref[1] = "secondary" => IsCup(Served(ref))

\* The fixtures accepted before ref was handled
AcceptedBefore(ref) ==
    {r \in Refs("primary") \cup Refs("secondary") :
        /\ Processed(r) /\ Exit(r) = "added"
        /\ (r[1] = ref[1] => r[2] < ref[2])
        /\ (r[1] = "secondary" => ref[1] = "secondary")}

\* team_tokens of the Signature: the letter runs of the normalized summary,
\* taken per side when a separator splits the summary in two, without the
\* subject-team token
Letters == {LowerCase[i] : i \in 1..26}
KeepChar(c) == c \in Letters \cup {" "}
DashToSpace(s) == [i \in 1..Len(s) |-> IF s[i] = "-" THEN " " ELSE s[i]]
Count(c, s, n) == Cardinality({i \in 1..n : s[i] = c})
OutsideParens(s) ==
    LET keep == {i \in 1..Len(s) : Count("(", s, i) <= Count(")", s, i - 1)}
        F[i \in 0..Len(s)] ==
            IF i = 0 THEN <<>>
            ELSE IF i \in keep THEN Append(F[i - 1], s[i]) ELSE F[i - 1]
    IN  F[Len(s)]
Normalized(s) == SelectSeq(DashToSpace(OutsideParens(lower(s))), KeepChar)
Words(s) ==
    {SubSeq(s, p[1], p[2]) :
        p \in {q \in (1..Len(s)) \X (1..Len(s)) :
                 /\ q[1] <= q[2]
                 /\ \A k \in q[1]..q[2] : s[k] # " "
                 /\ (q[1] = 1 \/ s[q[1] - 1] = " ")
                 /\ (q[2] = Len(s) \/ s[q[2] + 1] = " ")}}
Separators ==
    <<(<<" ", "v", "s", " ">>), (<<" ", "v", " ">>), (<<" ", "-", " ">>),
      (<<"-">>)>>
Occurrences(sep, s) ==
    {i \in 0..(Len(s) - Len(sep)) : SubSeq(s, i + 1, i + Len(sep)) = sep}
SplitsInTwo(sep, s) ==
    /\ Cardinality(Occurrences(sep, s)) = 1
    /\ \A i \in Occurrences(sep, s) : i > 0 /\ i + Len(sep) < Len(s)
Sides(s) ==
    IF \E k \in 1..4 : SplitsInTwo(Separators[k], s)
    THEN LET k == CHOOSE n \in 1..4 :
                    /\ SplitsInTwo(Separators[n], s)
                    /\ \A m \in 1..(n - 1) : ~SplitsInTwo(Separators[m], s)
             i == CHOOSE n \in Occurrences(Separators[k], s) : TRUE
         IN  <<SubSeq(s, 1, i), SubSeq(s, i + Len(Separators[k]) + 1, Len(s))>>
    ELSE <<s>>
TeamTokens(event) ==
    UNION {Words(Normalized(Sides(name_of(event))[n])) :
              n \in DOMAIN Sides(name_of(event))}
        \ {lower(KEYWORD)}

Done == pc = "done"
AllRefs == Refs("primary") \cup Refs("secondary")

\* ------------------------------------------------------------------------
\* C1
\* ------------------------------------------------------------------------
\* C1 as stated: after a full run, of a primary and a secondary fixture on
\* the same calendar date whose team-token sets intersect, at most one is in
\* the output, and it is the primary one when the primary passed the filter.
C1_NoDuplicateByDateAndTokens ==
    Done =>
        \A p \in Refs("primary"), s \in Refs("secondary") :
            (/\ DateKey(Served(p)) # None
             /\ DateKey(Served(p)) = DateKey(Served(s))
             /\ TeamTokens(Served(p)) \cap TeamTokens(Served(s)) # {})
            => /\ ~(InOutput(p) /\ InOutput(s))
               /\ PassesFilter(p) => (InOutput(p) /\ ~InOutput(s))

\* C1 amended: after a full run, of a primary and a secondary fixture whose
\* starts fall in the same UTC minute, at most one is in the output, and it is
\* the primary one when the primary passed the filter.
C1_NoDuplicateByUtcMinute ==
    Done =>
        \A p \in Refs("primary"), s \in Refs("secondary") :
            (/\ MinuteOf(Served(p)) # None
             /\ MinuteOf(Served(p)) = MinuteOf(Served(s)))
            => /\ ~(InOutput(p) /\ InOutput(s))
               /\ PassesFilter(p) => (InOutput(p) /\ ~InOutput(s))

\* A finished run in which a secondary cup fixture that passed the filter was
\* dropped because an accepted primary fixture starts in the same UTC minute,
\* the two starts being written differently.
C1_Witness ==
    /\ Done
    /\ \E p \in Refs("primary"), s \in Refs("secondary") :
          /\ MinuteOf(Served(p)) = MinuteOf(Served(s))
          /\ Served(p).begin # Served(s).begin
          /\ InOutput(p)
          /\ PassesFilter(s)
          /\ Exit(s) = "seen"
          /\ ~InOutput(s)

\* ------------------------------------------------------------------------
\* C2
\* ------------------------------------------------------------------------
\* C2: every primary fixture that has the keyword and a start year of at
\* least MIN_YEAR is added to the final calendar when it is handled and stays
\* there, is in the written output of a finished run, and no iteration of the
\* primary pass leaves through the duplicate test.
C2_PrimarySupremacy ==
    \A p \in Refs("primary") :
        Processed(p) =>
            /\ Exit(p) # "seen"
            /\ (HasKeyword(Served(p)) /\ YearInRange(Served(p)))
               => /\ Exit(p) = "added"
                  /\ p \in final_events
                  /\ Done => InOutput(p)

\* A finished run whose primary feed holds two passing fixtures with the same
\* start, both in the output, next to a secondary fixture of that start.
C2_Witness ==
    /\ Done
    /\ \E p \in Refs("primary"), q \in Refs("primary") :
          /\ p # q
          /\ Served(p).begin = Served(q).begin
          /\ Served(p).begin # None
          /\ InOutput(p) /\ InOutput(q)
          /\ \E s \in Refs("secondary") : Served(s).begin = Served(p).begin

\* ------------------------------------------------------------------------
\* C3
\* ------------------------------------------------------------------------
\* C3: in every state, every fixture in the final calendar, and every fixture
\* written to the output, was served with a summary that contains "napoli"
\* case-insensitively; a fixture with an empty or absent summary is in
\* neither.
C3_KeywordNecessity ==
    \A r \in AllRefs :
        (r \in final_events \/ InOutput(r)) =>
            /\ Served(r).name # None
            /\ name_of(Served(r)) # <<>>
            /\ \E i \in 0..(Len(name_of(Served(r))) - 6) :
                  lower(SubSeq(name_of(Served(r)), i + 1, i + 6))
                      = <<"n", "a", "p", "o", "l", "i">>

\* A finished run that handled, in both feeds, a fixture without the keyword
\* whose year is in range (a cup fixture in the secondary feed), among them
\* one with an absent and one with an empty summary.
C3_Witness ==
    /\ Done
    /\ \E p \in Refs("primary"), s \in Refs("secondary") :
          /\ ~HasKeyword(Served(p)) /\ YearInRange(Served(p))
          /\ ~HasKeyword(Served(s)) /\ YearInRange(Served(s))
          /\ Exit(p) = "keyword" /\ Exit(s) = "keyword"
    /\ \E r \in AllRefs : Served(r).name = None
    /\ \E r \in AllRefs : Served(r).name = Some(<<>>)
    /\ \E s \in Refs("secondary") : IsCup(Served(s)) /\ ~HasKeyword(Served(s))

\* ------------------------------------------------------------------------
\* C4
\* ------------------------------------------------------------------------
\* C4: in every state, no fixture whose start is absent or whose start year
\* (as served, in the start's own zone) is below MIN_YEAR is in the final
\* calendar or in the written output, whichever feed it came from.
C4_FilterCorrectness ==
    \A r \in AllRefs :
        (Served(r).begin = None \/ \E dt \in Served(r).begin : dt.year < 2025)
        => /\ r \notin final_events
           /\ ~InOutput(r)
           /\ Processed(r) => Exit(r) \in {"keyword", "year"}

\* A finished run that handled a keyword fixture of 2024 and a keyword
\* fixture without start, one in each feed, and dropped both at the year test.
C4_Witness ==
    /\ Done
    /\ \E r \in AllRefs, q \in AllRefs :
          /\ r[1] # q[1]
          /\ HasKeyword(Served(r)) /\ HasKeyword(Served(q))
          /\ Served(r).begin = None
          /\ \E dt \in Served(q).begin : dt.year = MIN_YEAR - 1
          /\ Exit(r) = "year" /\ Exit(q) = "year"

\* ------------------------------------------------------------------------
\* C5
\* ------------------------------------------------------------------------
\* C5: for every summary served or carried by an event, labelling the
\* labelled summary gives the labelled summary again; an accepted event
\* carries the labelled form of the summary it was served with, which starts
\* with the prefix twice only if the served summary already did.
C5_IdempotentLabeling ==
    \A r \in AllRefs :
        LET served == name_of(Served(r))
            current == name_of(Current(r))
        IN  /\ labelled(labelled(served)) = labelled(served)
            /\ labelled(labelled(current)) = labelled(current)
            /\ r \in final_events =>
                  /\ current = labelled(served)
                  /\ labelled(current) = current
                  /\ startswith(current, PREFIX \o PREFIX)
                     => startswith(served, PREFIX \o PREFIX)

\* A state in which an accepted fixture served without the prefix carries it
\* once, and an accepted fixture served with the prefix is unchanged.
C5_Witness ==
    \E r \in final_events, q \in final_events :
        /\ ~startswith(name_of(Served(r)), PREFIX)
        /\ name_of(Current(r)) = PREFIX \o name_of(Served(r))
        /\ startswith(name_of(Served(q)), PREFIX)
        /\ name_of(Current(q)) = name_of(Served(q))

\* ------------------------------------------------------------------------
\* C6
\* ------------------------------------------------------------------------
\* Feed order: primary fixtures before secondary ones, and feed position
\* within a feed
Before(a, b) ==
    \/ a[1] = "primary" /\ b[1] = "secondary"
    \/ a[1] = b[1] /\ a[2] < b[2]

Accepted == {r \in AllRefs : Processed(r) /\ Exit(r) = "added"}

\* C6 as stated: the output of a finished run lists the accepted primary
\* fixtures in primary-feed order, followed by the accepted secondary
\* fixtures in secondary-feed order.
C6_OutputInFeedOrder ==
    Done =>
        /\ {ics_text[k] : k \in DOMAIN ics_text} = Accepted
        /\ \A k, l \in DOMAIN ics_text :
              k < l => Before(ics_text[k], ics_text[l])

\* C6 amended: fixtures enter the final calendar in feed order, every
\* accepted primary fixture before any secondary one; the final calendar is a
\* set, and the output of a finished run lists exactly the accepted fixtures,
\* each once, in an order that need not be the order of acceptance.
C6_AccumulationOrder ==
    /\ [][\A r \in final_events' \ final_events :
             \A q \in final_events : Before(q, r)]_vars
    /\ [](/\ final_events = Accepted
          /\ Done =>
               /\ {ics_text[k] : k \in DOMAIN ics_text} = Accepted
               /\ Len(ics_text) = Cardinality(Accepted))

\* A finished run with two accepted primary fixtures and one accepted
\* secondary fixture whose output lists the secondary one first.
C6_Witness ==
    /\ Done
    /\ Len(ics_text) = 3
    /\ ics_text[1][1] = "secondary"
    /\ ics_text[2] = <<"primary", 2>>
    /\ ics_text[3] = <<"primary", 1>>

\* ------------------------------------------------------------------------
\* C7
\* ------------------------------------------------------------------------
\* C7: while the primary pass is under way no secondary fixture has been
\* loaded or handled; once the secondary feed is loaded every primary fixture
\* has been handled, and the key of every accepted primary fixture that has a
\* start is in seen_times, from the first secondary fixture on.
C7_PhaseOrder ==
    /\ pc \in {"load_primary", "primary", "load_secondary"}
       => cal["secondary"] = <<>> /\ fate["secondary"] = <<>>
    /\ pc \in {"load_secondary", "secondary", "serialize", "done"}
       => /\ Len(fate["primary"]) = Len(cal["primary"])
          /\ \A p \in Refs("primary") :
                (Exit(p) = "added" /\ Served(p).begin # None)
                => \E key \in seen_times :
                      key = strftime_minute(astimezone_utc(Value(Served(p).begin)))

\* The first secondary fixture is about to be handled after a primary pass
\* over two fixtures, the last of which was accepted and is in the index.
C7_Witness ==
    /\ pc = "secondary"
    /\ idx = 1
    /\ Len(cal["secondary"]) > 0
    /\ Len(cal["primary"]) = 2
    /\ Exit(<<"primary", 2>>) = "added"
    /\ seen_times # {}

\* ------------------------------------------------------------------------
\* C8
\* ------------------------------------------------------------------------
\* C8: a secondary fixture without start never leaves the iteration through
\* the duplicate test, nor through the cup test: it is stopped no later than
\* the year test (by the year test itself when it has the keyword) or it is
\* in the final calendar.
C8_MissingTimestamp ==
    \A s \in Refs("secondary") :
        (Processed(s) /\ Served(s).begin = None)
        => /\ Exit(s) \in {"keyword", "year", "added"}
           /\ HasKeyword(Served(s)) => Exit(s) \in {"year", "added"}
           /\ Exit(s) = "added" <=> s \in final_events

\* A finished run in which a secondary fixture without start was handled
\* whose summary is the one an accepted primary fixture was served with.
C8_Witness ==
    /\ Done
    /\ \E p \in Refs("primary"), s \in Refs("secondary") :
          /\ InOutput(p)
          /\ Served(s).begin = None
          /\ Served(s).name = Served(p).name
          /\ HasKeyword(Served(s))
          /\ Exit(s) = "year"
          /\ ~InOutput(s)

\* ------------------------------------------------------------------------
\* C9
\* ------------------------------------------------------------------------
\* C9: a handled secondary fixture that passes the filter (keyword, year,
\* cup) and whose UTC calendar date is the date of no fixture accepted before
\* it was accepted, is in the final calendar and in the output of a finished
\* run.
C9_DateUniqueKept ==
    \A s \in Refs("secondary") :
        (/\ Processed(s)
         /\ PassesFilter(s)
         /\ \A q \in AcceptedBefore(s) :
               DateKey(Served(q)) # DateKey(Served(s)))
        => /\ Exit(s) = "added"
           /\ s \in final_events
           /\ Done => InOutput(s)

\* A finished run whose output holds a primary fixture and a secondary
\* fixture that start at the same time of day on different UTC dates.
C9_Witness ==
    /\ Done
    /\ \E p \in Refs("primary"), s \in Refs("secondary") :
          /\ InOutput(p) /\ InOutput(s)
          /\ DateKey(Served(p)) # DateKey(Served(s))
          /\ \A m \in MinuteOf(Served(p)), n \in MinuteOf(Served(s)) :
                m % 1440 = n % 1440

\* ------------------------------------------------------------------------
\* C10
\* ------------------------------------------------------------------------
ScenarioA ==
    /\ feed["primary"] = <<Ev(Some(S_NapoliInter), Some(T_1800Z))>>
    /\ feed["secondary"] = <<Ev(Some(S_InterNapoli), Some(T_1800Z))>>

SameInstant(a, b) ==
    /\ a.begin # None
    /\ b.begin # None
    /\ MinuteOf(a) = MinuteOf(b)
    /\ Value(a.begin).second = Value(b.begin).second

\* C10: the finished run on "Napoli - Inter" (primary) and "Inter v Napoli"
\* (secondary), both at 2025-09-10T18:00Z, outputs the primary fixture alone,
\* with the prefix in front of its summary; and in every state no secondary
\* fixture that starts at the instant of a primary fixture of the final
\* calendar is in the final calendar or in the output.
C10_ScenarioA ==
    /\ (Done /\ ScenarioA)
       => /\ ics_text = << <<"primary", 1>> >>
          /\ name_of(Current(<<"primary", 1>>)) = <<"⚽", " ">> \o S_NapoliInter
    /\ \A p \in Refs("primary"), s \in Refs("secondary") :
          (p \in final_events /\ SameInstant(Served(p), Served(s)))
          => s \notin final_events /\ ~InOutput(s)

\* The finished run of Scenario A.
C10_Witness ==
    /\ Done
    /\ ScenarioA
    /\ Len(ics_text) = 1
    /\ fate["secondary"] # <<>>

\* ------------------------------------------------------------------------
\* C11
\* ------------------------------------------------------------------------
ScenarioD == feed["primary"] = <<>> /\ Len(feed["secondary"]) = 1

\* C11 as stated: when the primary feed is empty and the secondary feed holds
\* one fixture that has the keyword and a year in range, the finished run
\* outputs exactly that fixture.
C11_ScenarioD_KeywordAndYear ==
    (/\ Done
     /\ ScenarioD
     /\ HasKeyword(Served(<<"secondary", 1>>))
     /\ YearInRange(Served(<<"secondary", 1>>)))
    => ics_text = << <<"secondary", 1>> >>

\* C11 amended: an empty primary feed does not stop the run (its loop is
\* over at once and the secondary feed is handled), and when the one
\* secondary fixture has the keyword, a year in range and a cup summary, the
\* finished run outputs exactly that fixture.
C11_ScenarioD_Cup ==
    /\ (pc = "primary" /\ cal["primary"] = <<>>) => ENABLED PrimaryEnd
    /\ (pc \in {"secondary", "serialize", "done"} /\ feed["primary"] = <<>>)
       => Len(fate["secondary"]) = idx - 1
    /\ (/\ Done
        /\ ScenarioD
        /\ HasKeyword(Served(<<"secondary", 1>>))
        /\ YearInRange(Served(<<"secondary", 1>>))
        /\ IsCup(Served(<<"secondary", 1>>)))
       => /\ ics_text = << <<"secondary", 1>> >>
          /\ final_events = {<<"secondary", 1>>}

\* The finished run on an empty primary feed and one secondary cup fixture
\* of 2025 with the keyword.
C11_Witness ==
    /\ Done
    /\ ScenarioD
    /\ PassesFilter(<<"secondary", 1>>)
    /\ ics_text = << <<"secondary", 1>> >>

\* ------------------------------------------------------------------------
\* C12
\* ------------------------------------------------------------------------
\* C12: while the secondary pass is under way, seen_times holds the key of
\* every fixture accepted so far, primary or secondary; and of two secondary
\* fixtures that pass the filter and start in the same UTC minute, the later
\* one in feed order is never in the final calendar or the output, and the
\* earlier one is dropped only as a duplicate of a fixture accepted before it.
C12_SecondaryInternalDuplicates ==
    /\ pc = "secondary"
       => \A q \in Accepted : \A dt \in Served(q).begin :
             strftime_minute(astimezone_utc(dt)) \in seen_times
    /\ \A s \in Refs("secondary"), t \in Refs("secondary") :
          (/\ s[2] < t[2]
           /\ PassesFilter(s) /\ PassesFilter(t)
           /\ MinuteOf(Served(s)) = MinuteOf(Served(t)))
          => /\ t \notin final_events /\ ~InOutput(t)
             /\ Processed(t) => Exit(t) = "seen"
             /\ (Processed(s) /\ Exit(s) # "added")
                => \E q \in AcceptedBefore(s) :
                      MinuteOf(Served(q)) = MinuteOf(Served(s))

\* A finished run in which two secondary cup fixtures with different
\* summaries start in the same UTC minute, no primary fixture does, the first
\* is in the output and the second was dropped as seen.
C12_Witness ==
    /\ Done
    /\ \E s \in Refs("secondary"), t \in Refs("secondary") :
          /\ s[2] < t[2]
          /\ MinuteOf(Served(s)) = MinuteOf(Served(t))
          /\ Served(s).name # Served(t).name
          /\ InOutput(s)
          /\ Exit(t) = "seen"
          /\ \A p \in Refs("primary") :
                MinuteOf(Served(p)) # MinuteOf(Served(s))

\* ------------------------------------------------------------------------
\* C13
\* ------------------------------------------------------------------------
\* C13: no secondary fixture whose summary has none of "[cop]", "coppa",
\* "supercoppa", "super cup" (case-insensitively) is ever in the final
\* calendar or the output; a handled primary fixture without any of them that
\* has the keyword and a year in range is accepted.
C13_CupOnlySecondary ==
    /\ \A s \in Refs("secondary") :
          ~IsCup(Served(s))
          => /\ s \notin final_events
             /\ ~InOutput(s)
             /\ Processed(s) => Exit(s) \in {"keyword", "year", "cup"}
    /\ \A p \in Refs("primary") :
          (/\ Processed(p)
           /\ ~IsCup(Served(p))
           /\ HasKeyword(Served(p))
           /\ YearInRange(Served(p)))
          => Exit(p) = "added" /\ p \in final_events

\* A finished run in which the same instant holds a primary fixture without
\* cup marker, which is in the output, and a secondary fixture without cup
\* marker that has the keyword, which was dropped at the cup test.
C13_Witness ==
    /\ Done
    /\ \E p \in Refs("primary"), s \in Refs("secondary") :
          /\ ~IsCup(Served(p)) /\ InOutput(p)
          /\ ~IsCup(Served(s)) /\ HasKeyword(Served(s))
          /\ YearInRange(Served(s))
          /\ Exit(s) = "cup"
    /\ \E s \in Refs("secondary") : IsCup(Served(s)) /\ InOutput(s)

\* ------------------------------------------------------------------------
\* C14
\* ------------------------------------------------------------------------
\* C14: in every state, the summary of every fixture in the final calendar
\* starts with the prefix, whichever feed it came from; when the summary
\* served did not start with the prefix, the summary carried is the prefix
\* followed by the summary served, so the prefix stands at the start once.
C14_LabeledOutput ==
    \A r \in AllRefs :
        (r \in final_events \/ InOutput(r)) =>
            LET served == name_of(Served(r))
                current == name_of(Current(r))
            IN  /\ Len(current) >= 2
                /\ current[1] = "⚽" /\ current[2] = " "
                /\ ~(Len(served) >= 2 /\ served[1] = "⚽" /\ served[2] = " ")
                   => /\ current = <<"⚽", " ">> \o served
                      /\ SubSeq(current, 3, Len(current)) = served

\* A state in which the final calendar holds a primary and a secondary
\* fixture, both served without the prefix.
C14_Witness ==
    \E p \in Refs("primary") \cap final_events,
       s \in Refs("secondary") \cap final_events :
        /\ name_of(Served(p))[1] # "⚽"
        /\ name_of(Served(s))[1] # "⚽"
        /\ name_of(Current(p))[1] = "⚽"
        /\ name_of(Current(s))[1] = "⚽"

\* ------------------------------------------------------------------------
\* C15
\* ------------------------------------------------------------------------
\* C15: two fixtures with a start have the same dedup key exactly when their
\* starts fall in the same UTC minute, whatever the zones they are written
\* in; a handled secondary fixture that passes the filter and starts at the
\* instant of an accepted primary fixture is dropped as seen.
C15_UtcNormalizedKey ==
    /\ \A a \in AllRefs, b \in AllRefs :
          (Served(a).begin # None /\ Served(b).begin # None)
          => ((event_time_key(Served(a)) = event_time_key(Served(b)))
              <=> (MinuteOf(Served(a)) = MinuteOf(Served(b))))
    /\ \A p \in Refs("primary"), s \in Refs("secondary") :
          (/\ Processed(s)
           /\ Exit(p) = "added"
           /\ PassesFilter(s)
           /\ SameInstant(Served(p), Served(s)))
          => Exit(s) = "seen" /\ s \notin final_events

\* A finished run in which a secondary cup fixture written with offset
\* +02:00 starts at the instant of an accepted primary fixture written in UTC
\* and was dropped as seen.
C15_Witness ==
    /\ Done
    /\ \E p \in Refs("primary"), s \in Refs("secondary") :
          /\ InOutput(p)
          /\ SameInstant(Served(p), Served(s))
          /\ Value(Served(p).begin).utcoffset = 0
          /\ Value(Served(s).begin).utcoffset = 120
          /\ Value(Served(p).begin).hour # Value(Served(s).begin).hour
          /\ Exit(s) = "seen"

\* ------------------------------------------------------------------------
\* C16
\* ------------------------------------------------------------------------
\* The three malformations of a fixture: empty or absent summary, summary
\* that no separator splits in two, absent start
EmptySummary(event) == name_of(event) = <<>>
NoSeparator(event) ==
    ~\E k \in 1..4 : SplitsInTwo(Separators[k], name_of(event))
AbsentStart(event) == event.begin = None
Malformed(event) ==
    EmptySummary(event) \/ NoSeparator(event) \/ AbsentStart(event)

\* The fixtures in the order a run handles them
RefAt(n) ==
    IF n <= Len(feed["primary"]) THEN <<"primary", n>>
    ELSE <<"secondary", n - Len(feed["primary"])>>
NumRefs == Len(feed["primary"]) + Len(feed["secondary"])

\* The fixtures among the first n that a run accepts when the fixtures of
\* Absent are not in the feeds
RECURSIVE AcceptedWithout(_, _)
AcceptedWithout(n, Absent) ==
    IF n = 0 THEN {}
    ELSE LET prior == AcceptedWithout(n - 1, Absent)
             r == RefAt(n)
         IN  IF /\ r \notin Absent
                /\ PassesFilter(r)
                /\ r[1] = "secondary"
                   => \A q \in prior :
                         MinuteOf(Served(q)) # MinuteOf(Served(r))
             THEN prior \cup {r}
             ELSE prior

\* Every iteration handles the next fixture of the feed, one position at a
\* time, whatever exit it takes, and a finished run has handled them all
EveryFixtureOnce ==
    /\ \A f \in Feeds : Len(fate[f]) <= Len(feed[f])
    /\ pc = "primary" => idx = Len(fate["primary"]) + 1
    /\ pc = "secondary" => idx = Len(fate["secondary"]) + 1
    /\ pc \in {"load_secondary", "secondary", "serialize", "done"}
       => Len(fate["primary"]) = Len(feed["primary"])
    /\ pc \in {"serialize", "done"}
       => Len(fate["secondary"]) = Len(feed["secondary"])

\* C16 as stated: after a run, whichever malformed fixture is taken out of
\* the feeds (empty summary, summary without separator, absent start), the
\* other fixtures are accepted or not exactly as they were with it.
C16_AsIfMalformedAbsent ==
    Done =>
        \A m \in AllRefs :
            Malformed(Served(m))
            => final_events \ {m} = AcceptedWithout(NumRefs, {m})

\* C16: every run terminates, having handled every fixture of both feeds
\* once, whatever fixtures are malformed; a fixture with an empty summary or
\* without start is dropped, and the other fixtures are accepted or not as if
\* it were not in the feeds; a summary without separator is handled like any
\* other, so that such a fixture, once accepted, makes a later secondary
\* fixture of the same UTC minute a duplicate.
C16_BestEffortContinuation ==
    /\ <>Done
    /\ [](/\ EveryFixtureOnce
          /\ Done =>
               /\ final_events = AcceptedWithout(NumRefs, {})
               /\ \A m \in AllRefs :
                     (EmptySummary(Served(m)) \/ AbsentStart(Served(m)))
                     => final_events = AcceptedWithout(NumRefs, {m}))

\* A finished run in which a fixture with an empty summary, dropped at the
\* keyword test, is followed in its feed by a fixture that is in the output,
\* and a fixture without start is followed by a handled fixture as well.
C16_Witness ==
    /\ Done
    /\ \E m \in AllRefs, r \in AllRefs :
          /\ EmptySummary(Served(m))
          /\ m[1] = r[1] /\ m[2] < r[2]
          /\ Exit(m) = "keyword"
          /\ InOutput(r)
    /\ \E m \in AllRefs, r \in AllRefs :
          /\ AbsentStart(Served(m)) /\ ~EmptySummary(Served(m))
          /\ Before(m, r)
          /\ Exit(m) = "year"
          /\ Processed(r)

\* ------------------------------------------------------------------------
\* C17
\* ------------------------------------------------------------------------
\* C17: seen_times is empty when the run starts; no step removes a key from
\* it; in every state it holds the key of every fixture of the final calendar
\* that has a start, and every key in it is the key of a fixture that was
\* accepted.
C17_IndexTracksOutput ==
    /\ [](/\ pc = "load_primary" => seen_times = {}
          /\ \A r \in final_events :
                event_time_key(Served(r)) \subseteq seen_times
          /\ \A k \in seen_times :
                \E r \in final_events :
                    /\ Processed(r) /\ Exit(r) = "added"
                    /\ k \in event_time_key(Served(r)))
    /\ [][seen_times \subseteq seen_times']_vars

\* A state in which three fixtures have been accepted, two of them in the
\* same UTC minute, and seen_times holds their two keys.
C17_Witness ==
    /\ Cardinality(final_events) = 3
    /\ Cardinality(seen_times) = 2
    /\ \E r \in final_events : r[1] = "secondary"

\* ------------------------------------------------------------------------
\* C18
\* ------------------------------------------------------------------------
\* The fixture the next iteration of the pass over feed f handles
NextRef(f) == <<f, Len(fate[f]) + 1>>

\* That fixture fails the keyword, year or cup test of its pass, or is a
\* secondary fixture in the UTC minute of a fixture accepted so far
ToBeDropped(ref) ==
    \/ ~PassesFilter(ref)
    \/ /\ ref[1] = "secondary"
       /\ \E q \in Accepted : MinuteOf(Served(q)) = MinuteOf(Served(ref))

\* C18: an iteration that handles a fixture failing the keyword, year or cup
\* test, or a duplicate, leaves the final calendar, seen_times and every
\* summary, that fixture's included, as they were; in every state, a fixture
\* whose summary differs from the one served is in the final calendar.
C18_DroppedFixtureFrame ==
    /\ [][\A f \in Feeds :
            (Len(fate'[f]) = Len(fate[f]) + 1 /\ ToBeDropped(NextRef(f)))
            => /\ final_events' = final_events
               /\ seen_times' = seen_times
               /\ cal' = cal
               /\ added' = added]_vars
    /\ [](\A r \in AllRefs :
            Current(r).name # Served(r).name
            => r \in final_events /\ Exit(r) = "added")

\* A finished run in which a duplicate and a fixture failing a test, both
\* served with a summary that does not start with the prefix, were dropped
\* and carry the summary served, while an accepted fixture carries the prefix.
C18_Witness ==
    /\ Done
    /\ \E d \in AllRefs, x \in AllRefs, a \in AllRefs :
          /\ Exit(d) = "seen" /\ Exit(x) \in {"keyword", "year", "cup"}
          /\ Exit(a) = "added"
          /\ name_of(Served(d)) # <<>> /\ name_of(Served(d))[1] # "⚽"
          /\ name_of(Served(x)) # <<>> /\ name_of(Served(x))[1] # "⚽"
          /\ Current(d).name = Served(d).name
          /\ Current(x).name = Served(x).name
          /\ Current(a).name # Served(a).name
          /\ final_events = {a}

\* ------------------------------------------------------------------------
\* C19
\* ------------------------------------------------------------------------
\* C19: a handled secondary fixture that was accepted shares its UTC minute
\* with no fixture accepted before it; one that passes the keyword, year and
\* cup tests is dropped exactly when a fixture accepted before it starts in
\* the same UTC minute, whatever the two summaries; and no fixture is dropped
\* as seen otherwise.
C19_DuplicateIsSameUtcMinute ==
    \A s \in Refs("secondary") :
        Processed(s) =>
            LET clash == \E q \in AcceptedBefore(s) :
                            UtcMinute(Value(Served(q).begin))
                                = UtcMinute(Value(Served(s).begin))
            IN  /\ Exit(s) = "added" => ~clash
                /\ PassesFilter(s) => (Exit(s) = "seen" <=> clash)
                /\ PassesFilter(s) => (Exit(s) = "added" <=> ~clash)
                /\ Exit(s) = "seen" => PassesFilter(s) /\ clash

\* A finished run in which a secondary fixture was dropped as seen although
\* it shares no team token with the fixture accepted in its UTC minute, and
\* another secondary fixture was accepted on the UTC date of an accepted
\* primary fixture, 30 minutes apart.
C19_Witness ==
    /\ Done
    /\ \E s \in Refs("secondary"), q \in AllRefs :
          /\ Exit(s) = "seen"
          /\ q \in AcceptedBefore(s)
          /\ MinuteOf(Served(q)) = MinuteOf(Served(s))
          /\ TeamTokens(Served(q)) \cap TeamTokens(Served(s)) = {}
    /\ \E s \in Refs("secondary"), p \in Refs("primary") :
          /\ InOutput(s) /\ InOutput(p)
          /\ DateKey(Served(s)) = DateKey(Served(p))
          /\ MinuteOf(Served(s)) # MinuteOf(Served(p))

====
